---- MODULE Spec2Model ----
(***************************************************************************)
(* Model of the winit / wgpu / egui frame loop of src/renderer/src/main.rs *)
(*                                                                         *)
(* The event-loop closure of `run` is the only handler.  It is modelled as *)
(* one dispatch action per kind of event, followed, for an unconsumed      *)
(* RedrawRequested, by the statements of the redraw arm taken one at a     *)
(* time in source order (RedrawOrder).  The GPU executes the operations    *)
(* put on the wgpu queue asynchronously and in FIFO order (GpuExecute).    *)
(*                                                                         *)
(* Colour channels are f32 values written as integer percents              *)
(* (0 = 0.0, 50 = 0.5, 100 = 1.0); the uniform buffer holds their IEEE-754 *)
(* little-endian bytes, as encase writes them.                             *)
(***************************************************************************)
EXTENDS Integers, Sequences, FiniteSets, TLC

VARIABLES
    status,               \* "running" | "exited" (target.exit()) | "panicked" (expect failed)
    pc,                   \* position of the closure: "wait" or a statement of the redraw arm
    event,                \* the event being dispatched / last dispatched, with egui's response
    surface_config,       \* wgpu::SurfaceConfiguration: width, height, format
    surface,              \* the configuration last applied by surface.configure
    redraw_requested,     \* the window has a pending request_redraw()
    color_uniform,        \* [f32; 4] owned by the closure, bound to the colour picker
    color_uniform_buffer, \* contents of the GPU uniform buffer (16 bytes)
    ui_buffers,           \* GPU side: are the egui vertex/index buffers those of the pending frame
    queue,                \* wgpu queue: operations enqueued and not yet executed by the GPU
    drawn,                \* what the last executed command buffer observed
    frame,                \* surface texture of the redraw: "none" | "acquired" | "presented"
    egui_full_output,     \* FullOutput of the current redraw: textures_delta (set / free),
                          \* pixels_per_point, and whether it asks for a repaint
    egui_screen_descriptor, \* egui_wgpu::ScreenDescriptor of the current redraw
    pixels_per_point,     \* `let pixels_per_point = window.scale_factor() as f32`, taken at startup
    scale_factor,         \* the window's current scale factor, as egui's input tracks it
    textures,             \* textures held by egui_renderer
    trace                 \* calls made so far by the current dispatch, in order

vars == <<status, pc, event, surface_config, surface, redraw_requested,
          color_uniform, color_uniform_buffer, ui_buffers, queue, drawn,
          frame, egui_full_output, egui_screen_descriptor, pixels_per_point,
          scale_factor, textures, trace>>

-----------------------------------------------------------------------------
(* Bounds *)

MaxDim == 2      \* window widths and heights range over 0..MaxDim
MaxQueue == 1    \* an event is dispatched only with at most MaxQueue operations pending on the GPU

Dims == 0..MaxDim
Sizes == Dims \X Dims
NoSize == <<0, 0>>

\* Texture ids egui hands out in this program: the font atlas only.
TextureIds == {"font_atlas"}

\* Colours the picker can produce in the model (percent per channel).
InitialColor == <<100, 0, 0, 100>>
Palette == {InitialColor, <<100, 0, 0, 50>>, <<0, 100, 50, 0>>}

\* Scale factors a monitor of the model can have.
ScaleFactors == {1, 2}

\* The surface formats the adapter reports, in order.
Formats == <<"Bgra8UnormSrgb", "Rgba8UnormSrgb">>

-----------------------------------------------------------------------------
(* Pure helpers *)

Range(s) == {s[i] : i \in 1..Len(s)}

\* Index of the first occurrence of x in s, 0 when absent.
IndexOf(s, x) ==
    IF x \in Range(s) THEN CHOOSE i \in 1..Len(s) : s[i] = x /\ \A j \in 1..(i - 1) : s[j] # x
    ELSE 0

\* u32::max(1)
ClampDimIdentity(x) == x
ClampDim(x) == IF x > 1 THEN x ELSE 1

\* RGBA::new
RGBA_new(rgba) == [r |-> rgba[1], g |-> rgba[2], b |-> rgba[3], a |-> rgba[4]]

\* Bit pattern of an f32 given as a percent.
F32Bits(v) ==
    CASE v = 0   -> 0              \* 0x00000000
      [] v = 50  -> 1056964608     \* 0x3F000000
      [] v = 100 -> 1065353216     \* 0x3F800000

F32Value(bits) == CHOOSE v \in {0, 50, 100} : F32Bits(v) = bits

LE32(bits) == << bits % 256, (bits \div 256) % 256,
                 (bits \div 65536) % 256, (bits \div 16777216) % 256 >>

FromLE32(b) == b[1] + 256 * b[2] + 65536 * b[3] + 16777216 * b[4]

\* encase UniformBuffer::write of an RGBA: four f32, offsets 0, 4, 8, 12.
EncaseWrite(color) ==
    LE32(F32Bits(color.r)) \o LE32(F32Bits(color.g)) \o
    LE32(F32Bits(color.b)) \o LE32(F32Bits(color.a))

\* What the fragment shader reads from the uniform: vec4<f32> at offset 0.
ShaderRead(buf) ==
    << F32Value(FromLE32(SubSeq(buf, 1, 4))),  F32Value(FromLE32(SubSeq(buf, 5, 8))),
       F32Value(FromLE32(SubSeq(buf, 9, 12))), F32Value(FromLE32(SubSeq(buf, 13, 16))) >>

\* Effect of a queued write_buffer(buffer, offset, data) when the GPU executes it.
ApplyWrite(buf, offset, data) ==
    [i \in 1..Len(buf) |->
        IF i > offset /\ i <= offset + Len(data) THEN data[i - offset] ELSE buf[i]]

\* update_color_buffer: the operations it puts on the queue.
QueueOp(op, data, committed) ==
    [op |-> op, offset |-> 0, data |-> data, committed |-> committed]

UpdateColorBufferAlphaOnly(color) ==
    << [op |-> "write_buffer", offset |-> 12, data |-> LE32(F32Bits(color.a)),
        committed |-> <<>>] >>
update_color_buffer(color) == << QueueOp("write_buffer", EncaseWrite(color), <<>>) >>

ZeroBuffer == [i \in 1..16 |-> 0]

NoOutput == [set |-> {}, free |-> {}, pixels_per_point |-> 0, repaint |-> FALSE]
NoDescriptor == [size_in_pixels |-> <<0, 0>>, pixels_per_point |-> 0]
NoDraw == [color |-> <<>>, committed |-> <<>>, ui |-> "none"]

-----------------------------------------------------------------------------
(* Initial state: after initialize_wgpu, initialize_shader, initialize_egui *)

\* initialize_shader: "Update the color buffer with the initial color".
InitialQueueEmpty == <<>>
InitialQueue == update_color_buffer(RGBA_new(InitialColor))

Init ==
    \E inner_size \in Sizes :
        /\ status = "running"
        /\ pc = "wait"
        /\ event = [kind |-> "none", size |-> inner_size,
                    consumed |-> FALSE, repaint |-> FALSE]
        /\ surface_config = [width  |-> ClampDim(inner_size[1]),
                             height |-> ClampDim(inner_size[2]),
                             format |-> Formats[1]]
        /\ surface = surface_config
        /\ redraw_requested = FALSE
        /\ color_uniform = InitialColor
        /\ color_uniform_buffer = ZeroBuffer
        /\ ui_buffers = "stale"
        /\ queue = InitialQueue
        /\ drawn = NoDraw
        /\ frame = "none"
        /\ egui_full_output = NoOutput
        /\ egui_screen_descriptor = NoDescriptor
        /\ scale_factor = 1
        /\ pixels_per_point = scale_factor
        /\ textures = {}
        /\ trace = <<>>

-----------------------------------------------------------------------------
(* The statements of the RedrawRequested arm, in source order *)

RedrawOrderSubmitFirst ==
    << "get_current_texture", "create_command_encoder", "run", "submit",
       "update_texture", "update_buffers", "render_pass", "present", "free_texture" >>
RedrawOrderFreeFirst ==
    << "get_current_texture", "create_command_encoder", "run", "free_texture",
       "update_texture", "update_buffers", "render_pass", "submit", "present" >>
RedrawOrder ==
    << "get_current_texture", "create_command_encoder", "run", "update_texture",
       "update_buffers", "render_pass", "submit", "present", "free_texture" >>

\* The statement after `step`; the closure returns after the last one.
NextPc(step) ==
    LET i == IndexOf(RedrawOrder, step)
    IN IF i < Len(RedrawOrder) THEN RedrawOrder[i + 1] ELSE "wait"

At(step) == status = "running" /\ pc = step

\* The event loop hands the closure its next event; the platform holds events
\* back while more than MaxQueue operations are pending on the GPU.
Ready == At("wait") /\ Len(queue) <= MaxQueue

\* One entry `name` per element of S (a for loop over S).
Calls(name, S) == [i \in 1..Cardinality(S) |-> name]

-----------------------------------------------------------------------------
(* Event dispatch: the closure up to and including the match *)

Responses == [consumed : BOOLEAN, repaint : BOOLEAN]

\* if egui_event_response.repaint { window.request_redraw(); }
RepaintOnlyIfNotConsumed(response) == response.repaint /\ ~response.consumed
RepaintRequestsRedraw(response) == response.repaint

\* if egui_event_response.consumed { return; }
ConsumedNeverReturns(response) == FALSE
ConsumedReturns(response) == response.consumed

\* surface.configure rejects a configuration with a zero width or height
\* (wgpu validation error, fatal with the default error handler).
ZeroArea(config) == config.width = 0 \/ config.height = 0

\* surface_config.width = new_size.width.max(1); .height likewise
ReconfigureAccumulates(config, new_size) ==
    [config EXCEPT !.width = config.width + ClampDim(new_size[1]),
                   !.height = ClampDim(new_size[2])]
ReconfigureResetsFormat(config, new_size) ==
    [config EXCEPT !.width = ClampDim(new_size[1]),
                   !.height = ClampDim(new_size[2]),
                   !.format = Formats[2]]
Reconfigure(config, new_size) ==
    [config EXCEPT !.width = ClampDim(new_size[1]),
                   !.height = ClampDim(new_size[2])]

\* WindowEvent::Resized(new_size) => { ... }
ArmResizedNoRedraw(new_size, rr, t) ==
    LET config == [surface_config EXCEPT !.width = ClampDim(new_size[1]),
                                            !.height = ClampDim(new_size[2])]
    IN /\ surface_config' = config
       /\ IF ZeroArea(config)
          THEN /\ status' = "panicked"
               /\ surface' = surface
               /\ redraw_requested' = rr
               /\ trace' = t \o <<"match", "set_config", "configure_failed">>
          ELSE /\ status' = status
               /\ surface' = config
               /\ redraw_requested' = rr
               /\ trace' = t \o <<"match", "set_config", "configure">>
       /\ UNCHANGED <<pc, color_uniform, queue>>
ArmResizedWidthOnly(new_size, rr, t) ==
    LET config == [surface_config EXCEPT !.width = ClampDim(new_size[1])]
    IN /\ surface_config' = config
       /\ IF ZeroArea(config)
          THEN /\ status' = "panicked"
               /\ surface' = surface
               /\ redraw_requested' = rr
               /\ trace' = t \o <<"match", "set_config", "configure_failed">>
          ELSE /\ status' = status
               /\ surface' = config
               /\ redraw_requested' = TRUE
               /\ trace' = t \o <<"match", "set_config", "configure", "request_redraw">>
       /\ UNCHANGED <<pc, color_uniform, queue>>
ArmResized(new_size, rr, t) ==
    LET config == Reconfigure(surface_config, new_size)
    IN /\ surface_config' = config
       /\ IF ZeroArea(config)
          THEN /\ status' = "panicked"
               /\ surface' = surface
               /\ redraw_requested' = rr
               /\ trace' = t \o <<"match", "set_config", "configure_failed">>
          ELSE /\ status' = status
               /\ surface' = config
               /\ redraw_requested' = TRUE
               /\ trace' = t \o <<"match", "set_config", "configure", "request_redraw">>
       /\ UNCHANGED <<pc, color_uniform, queue>>

\* WindowEvent::RedrawRequested => { ... }: entry into the arm
ArmRedrawRequested(rr, t) ==
    /\ pc' = RedrawOrder[1]
    /\ redraw_requested' = rr
    /\ trace' = t \o <<"match">>
    /\ UNCHANGED <<status, surface_config, surface, color_uniform, queue>>

\* WindowEvent::CloseRequested => target.exit()
ArmCloseRequestedIgnored(rr, t) ==
    /\ redraw_requested' = rr
    /\ trace' = t \o <<"match">>
    /\ UNCHANGED <<status, pc, surface_config, surface, color_uniform, queue>>
ArmCloseRequested(rr, t) ==
    /\ status' = "exited"
    /\ redraw_requested' = rr
    /\ trace' = t \o <<"match", "exit">>
    /\ UNCHANGED <<pc, surface_config, surface, color_uniform, queue>>

\* _ => {}
ArmOtherRedraws(rr, t) ==
    /\ pc' = RedrawOrder[1]
    /\ redraw_requested' = rr
    /\ trace' = t \o <<"match">>
    /\ UNCHANGED <<status, surface_config, surface, color_uniform, queue>>
ArmOther(rr, t) ==
    /\ redraw_requested' = rr
    /\ trace' = t \o <<"match">>
    /\ UNCHANGED <<status, pc, surface_config, surface, color_uniform, queue>>

\* The early return of a consumed event.
Return(rr, t) ==
    /\ redraw_requested' = rr
    /\ trace' = t
    /\ UNCHANGED <<status, pc, surface_config, surface, color_uniform, queue>>

\* The closure called with Event::WindowEvent { event: window_event }.
WindowEvent(kind, size, response) ==
    /\ At("wait")
    /\ event' = [kind |-> kind, size |-> size,
                 consumed |-> response.consumed, repaint |-> response.repaint]
    \* the locals of the previous call are gone
    /\ frame' = "none"
    /\ egui_full_output' = NoOutput
    /\ egui_screen_descriptor' = NoDescriptor
    /\ UNCHANGED <<color_uniform_buffer, ui_buffers, drawn, textures, pixels_per_point>>
    /\ LET \* delivering RedrawRequested clears the window's pending request
           pending == IF kind = "RedrawRequested" THEN FALSE ELSE redraw_requested
           rr == IF RepaintRequestsRedraw(response) THEN TRUE ELSE pending
           t  == <<"on_window_event">> \o
                 (IF RepaintRequestsRedraw(response) THEN <<"request_redraw">> ELSE <<>>)
       IN IF ConsumedReturns(response) THEN Return(rr, t)
          ELSE CASE kind = "Resized"         -> ArmResized(size, rr, t)
                 [] kind = "RedrawRequested" -> ArmRedrawRequested(rr, t)
                 [] kind = "CloseRequested"  -> ArmCloseRequested(rr, t)
                 [] OTHER                    -> ArmOther(rr, t)

DispatchResized ==
    /\ Ready
    /\ \E new_size \in Sizes, response \in Responses :
          WindowEvent("Resized", new_size, response)
    /\ UNCHANGED scale_factor

DispatchRedrawRequested ==
    /\ Ready
    /\ \E response \in Responses : WindowEvent("RedrawRequested", NoSize, response)
    /\ UNCHANGED scale_factor

DispatchCloseRequested ==
    /\ Ready
    /\ \E response \in Responses : WindowEvent("CloseRequested", NoSize, response)
    /\ UNCHANGED scale_factor

\* Pointer, keyboard and every other window event.
DispatchOther ==
    /\ Ready
    /\ \E response \in Responses : WindowEvent("Other", NoSize, response)
    /\ UNCHANGED scale_factor

\* WindowEvent::ScaleFactorChanged: egui_state records the new factor in
\* on_window_event; the match has no arm for it.
DispatchScaleFactorChanged ==
    /\ Ready
    /\ \E response \in Responses :
          WindowEvent("ScaleFactorChanged", NoSize, response)
    /\ \E new_scale_factor \in ScaleFactors \ {scale_factor} :
          scale_factor' = new_scale_factor

\* An event that is not Event::WindowEvent: the `if let` does not match.
DispatchNonWindowEvent ==
    /\ Ready
    /\ event' = [kind |-> "NonWindow", size |-> NoSize,
                 consumed |-> FALSE, repaint |-> FALSE]
    /\ trace' = <<>>
    /\ frame' = "none"
    /\ egui_full_output' = NoOutput
    /\ egui_screen_descriptor' = NoDescriptor
    /\ UNCHANGED <<pixels_per_point, scale_factor>>
    /\ UNCHANGED <<status, pc, surface_config, surface, redraw_requested, color_uniform,
                   color_uniform_buffer, ui_buffers, queue, drawn, textures>>

-----------------------------------------------------------------------------
(* The RedrawRequested arm, one statement per action *)

\* .expect("Failed to acquire next swap chain texture") on an Err: the closure panics.
AcquireFailedSkipsFrame ==
    /\ pc' = "wait"
    /\ trace' = trace \o <<"get_current_texture_failed">>
    /\ UNCHANGED <<status, frame>>
AcquireFailed ==
    /\ status' = "panicked"
    /\ trace' = trace \o <<"get_current_texture_failed">>
    /\ UNCHANGED <<pc, frame>>

\* let frame = surface.get_current_texture().expect(..); let view = ..
GetCurrentTexture ==
    /\ UNCHANGED <<egui_screen_descriptor, pixels_per_point, scale_factor>>
    /\ At("get_current_texture")
    /\ \/ /\ frame' = "acquired"
          /\ pc' = NextPc("get_current_texture")
          /\ trace' = trace \o <<"get_current_texture">>
          /\ UNCHANGED status
       \/ AcquireFailed
    /\ UNCHANGED <<event, surface_config, surface, redraw_requested, color_uniform,
                   color_uniform_buffer, ui_buffers, queue, drawn, egui_full_output,
                   textures>>

\* let mut encoder = device.create_command_encoder(..)
CreateCommandEncoder ==
    /\ UNCHANGED <<egui_screen_descriptor, pixels_per_point, scale_factor>>
    /\ At("create_command_encoder")
    /\ pc' = NextPc("create_command_encoder")
    /\ trace' = trace \o <<"create_command_encoder">>
    /\ UNCHANGED <<status, event, surface_config, surface, redraw_requested, color_uniform,
                   color_uniform_buffer, ui_buffers, queue, drawn, frame,
                   egui_full_output, textures>>

\* The body of the closure given to egui_ctx.run: the colour picker edits
\* color_uniform in place and, when it reports a change, the new colour is
\* written to the uniform buffer.
PickerWritesOldColor(changed, new_color) ==
    /\ color_uniform' = IF changed THEN new_color ELSE color_uniform
    /\ queue' = queue \o
                (IF changed THEN update_color_buffer(RGBA_new(color_uniform)) ELSE <<>>)
PickerAlwaysWrites(changed, new_color) ==
    /\ color_uniform' = IF changed THEN new_color ELSE color_uniform
    /\ queue' = queue \o update_color_buffer(RGBA_new(color_uniform'))
ColorEditButton(changed, new_color) ==
    /\ color_uniform' = IF changed THEN new_color ELSE color_uniform
    /\ queue' = queue \o
                (IF changed THEN update_color_buffer(RGBA_new(color_uniform')) ELSE <<>>)

\* The calls of lines 265-289 in order: take_egui_input, egui_ctx().run(..)
\* whose closure calls update_color_buffer when the picker changed, the
\* return of run, tessellate.
UiCallsWriteAfterRun(changed) ==
    <<"take_egui_input", "run", "run_returned">> \o
    (IF changed THEN <<"update_color_buffer">> ELSE <<>>) \o
    <<"tessellate">>
UiCalls(changed) ==
    <<"take_egui_input", "run">> \o
    (IF changed THEN <<"update_color_buffer">> ELSE <<>>) \o
    <<"run_returned", "tessellate">>

\* egui_wgpu::ScreenDescriptor { size_in_pixels: [surface_config.width,
\* surface_config.height], pixels_per_point: pixels_per_point }
ScreenDescriptor ==
    [size_in_pixels   |-> <<surface_config.width, surface_config.height>>,
     pixels_per_point |-> pixels_per_point]

\* take_egui_input, egui_ctx().run(..), tessellate, screen descriptor
RunUi ==
    /\ At("run")
    /\ \E changed \in BOOLEAN, new_color \in Palette,
          set \in SUBSET TextureIds, free \in SUBSET TextureIds :
            /\ ColorEditButton(changed, new_color)
            /\ \E repaint \in BOOLEAN :
                  egui_full_output' = [set |-> set, free |-> free,
                                       pixels_per_point |-> scale_factor,
                                       repaint |-> repaint]
            /\ trace' = trace \o UiCalls(changed)
    /\ egui_screen_descriptor' = ScreenDescriptor
    /\ UNCHANGED <<pixels_per_point, scale_factor>>
    /\ pc' = NextPc("run")
    /\ UNCHANGED <<status, event, surface_config, surface, redraw_requested,
                   color_uniform_buffer, ui_buffers, drawn, frame, textures>>

\* for (id, image_delta) in textures_delta.set { egui_renderer.update_texture(..) }
UpdateTexture ==
    /\ UNCHANGED <<egui_screen_descriptor, pixels_per_point, scale_factor>>
    /\ At("update_texture")
    /\ textures' = textures \cup egui_full_output.set
    /\ queue' = queue \o [i \in 1..Cardinality(egui_full_output.set) |->
                            QueueOp("write_texture", <<>>, <<>>)]
    /\ trace' = trace \o Calls("update_texture", egui_full_output.set)
    /\ pc' = NextPc("update_texture")
    /\ UNCHANGED <<status, event, surface_config, surface, redraw_requested, color_uniform,
                   color_uniform_buffer, ui_buffers, drawn, frame, egui_full_output>>

\* egui_renderer.update_buffers(&device, &queue, &mut encoder, ..)
UpdateBuffers ==
    /\ UNCHANGED <<egui_screen_descriptor, pixels_per_point, scale_factor>>
    /\ At("update_buffers")
    /\ queue' = Append(queue, QueueOp("write_ui_buffers", <<>>, <<>>))
    /\ trace' = trace \o <<"update_buffers">>
    /\ pc' = NextPc("update_buffers")
    /\ UNCHANGED <<status, event, surface_config, surface, redraw_requested, color_uniform,
                   color_uniform_buffer, ui_buffers, drawn, frame, egui_full_output,
                   textures>>

\* The calls of the block of lines 307-334: begin_render_pass with
\* LoadOp::Clear(BLACK), set_pipeline, set_bind_group(0, color_bind_group),
\* draw(0..3, 0..1), egui_renderer.render into the same pass.
RenderPassCallsUiFirst ==
    <<"begin_render_pass", "egui_render", "set_pipeline", "set_bind_group", "draw">>
RenderPassCalls ==
    <<"begin_render_pass", "set_pipeline", "set_bind_group", "draw", "egui_render">>

\* The block that records the render pass: clear, triangle, then the UI.
RenderPass ==
    /\ UNCHANGED <<egui_screen_descriptor, pixels_per_point, scale_factor>>
    /\ At("render_pass")
    /\ trace' = trace \o RenderPassCalls
    /\ pc' = NextPc("render_pass")
    /\ UNCHANGED <<status, event, surface_config, surface, redraw_requested, color_uniform,
                   color_uniform_buffer, ui_buffers, queue, drawn, frame,
                   egui_full_output, textures>>

\* queue.submit(Some(encoder.finish())).  `committed` remembers the closure's
\* colour at the time of the submit, for comparison with what the draw reads.
Submit ==
    /\ UNCHANGED <<egui_screen_descriptor, pixels_per_point, scale_factor>>
    /\ At("submit")
    /\ queue' = Append(queue, QueueOp("submit", <<>>, color_uniform))
    /\ trace' = trace \o <<"submit">>
    /\ pc' = NextPc("submit")
    /\ UNCHANGED <<status, event, surface_config, surface, redraw_requested, color_uniform,
                   color_uniform_buffer, ui_buffers, drawn, frame, egui_full_output,
                   textures>>

\* frame.present()
Present ==
    /\ UNCHANGED <<egui_screen_descriptor, pixels_per_point, scale_factor>>
    /\ At("present")
    /\ frame' = "presented"
    /\ trace' = trace \o <<"present">>
    /\ pc' = NextPc("present")
    /\ UNCHANGED <<status, event, surface_config, surface, redraw_requested, color_uniform,
                   color_uniform_buffer, ui_buffers, queue, drawn, egui_full_output,
                   textures>>

\* for id in textures_delta.free { egui_renderer.free_texture(&id) }
FreeTexture ==
    /\ UNCHANGED <<egui_screen_descriptor, pixels_per_point, scale_factor>>
    /\ At("free_texture")
    /\ textures' = textures \ egui_full_output.free
    /\ trace' = trace \o Calls("free_texture", egui_full_output.free)
    /\ pc' = NextPc("free_texture")
    /\ UNCHANGED <<status, event, surface_config, surface, redraw_requested, color_uniform,
                   color_uniform_buffer, ui_buffers, queue, drawn, frame,
                   egui_full_output>>

-----------------------------------------------------------------------------
(* The GPU: executes the queue's operations in the order they were enqueued *)

GpuExecute ==
    /\ UNCHANGED <<egui_screen_descriptor, pixels_per_point, scale_factor>>
    /\ status = "running"
    /\ queue # <<>>
    /\ LET head == Head(queue) IN
        /\ queue' = Tail(queue)
        /\ color_uniform_buffer' =
              IF head.op = "write_buffer"
              THEN ApplyWrite(color_uniform_buffer, head.offset, head.data)
              ELSE color_uniform_buffer
        /\ ui_buffers' = CASE head.op = "write_ui_buffers" -> "fresh"
                           [] head.op = "submit"           -> "stale"
                           [] OTHER                        -> ui_buffers
        /\ drawn' = IF head.op = "submit"
                    THEN [color     |-> ShaderRead(color_uniform_buffer),
                          committed |-> head.committed,
                          ui        |-> ui_buffers]
                    ELSE drawn
    /\ UNCHANGED <<status, pc, event, surface_config, surface, redraw_requested,
                   color_uniform, frame, egui_full_output, textures, trace>>

-----------------------------------------------------------------------------

Next ==
    \/ DispatchResized
    \/ DispatchRedrawRequested
    \/ DispatchCloseRequested
    \/ DispatchOther
    \/ DispatchScaleFactorChanged
    \/ DispatchNonWindowEvent
    \/ GetCurrentTexture
    \/ CreateCommandEncoder
    \/ RunUi
    \/ UpdateTexture
    \/ UpdateBuffers
    \/ RenderPass
    \/ Submit
    \/ Present
    \/ FreeTexture
    \/ GpuExecute

Spec == Init /\ [][Next]_vars

-----------------------------------------------------------------------------
(* Vocabulary of the properties *)

IsWindowEvent ==
    event.kind \in {"Resized", "RedrawRequested", "CloseRequested", "Other",
                    "ScaleFactorChanged"}

Called(name) == name \in Range(trace)

\* Every call of `a` made by the current dispatch precedes its first call of `b`.
AllBefore(a, b) ==
    \A i \in 1..Len(trace) : trace[i] = a => \A j \in 1..i : trace[j] # b

\* The calls that put a write on the queue.
QueueWrites == {"update_color_buffer", "update_texture", "update_buffers"}

Max(a, b) == IF a >= b THEN a ELSE b
ClampSize(size) == <<Max(size[1], 1), Max(size[2], 1)>>
ConfigSize == <<surface_config.width, surface_config.height>>

-----------------------------------------------------------------------------
(* C1 .. C5 *)

\* C1: every triangle draw the GPU executes reads from the uniform buffer
\* exactly the colour the closure held when the draw's command buffer was
\* submitted, and once no colour write is pending the buffer holds the
\* closure's current colour; no draw sees a stale or partial colour.
C1_DrawObservesCommittedColor ==
    /\ drawn # NoDraw => drawn.color = drawn.committed
    /\ (\A i \in 1..Len(queue) : queue[i].op # "write_buffer")
          => color_uniform_buffer = EncaseWrite(RGBA_new(color_uniform))

\* A draw executed after the picker set alpha to 0.5 and left r, g, b alone.
C1_Witness ==
    /\ drawn # NoDraw
    /\ drawn.committed = <<100, 0, 0, 50>>
    /\ drawn.color = <<100, 0, 0, 50>>

\* C2: within a redraw every call that enqueues a write the frame reads
\* (colour uniform on change, UI texture updates, UI vertex/index upload) is
\* made before queue.submit, the upload is always among them, and the
\* executed command buffer finds the UI buffers of its own frame.
C2_WritesBeforeSubmit ==
    /\ \A w \in QueueWrites : AllBefore(w, "submit")
    /\ Called("submit") =>
          /\ Called("update_buffers")
          /\ Len(SelectSeq(trace, LAMBDA c : c = "update_texture"))
                = Cardinality(egui_full_output.set)
    /\ drawn # NoDraw => drawn.ui = "fresh"

\* A submitted redraw in which all three kinds of write were enqueued.
C2_Witness ==
    /\ Called("submit")
    /\ \A w \in QueueWrites : Called(w)
    /\ drawn.ui = "fresh"

\* C3: the textures of textures_delta.free are freed only after the frame's
\* command buffer was submitted: no free_texture call precedes the submit, and
\* no step taken before the submit removes a texture from the renderer.
C3_FreeAfterSubmit ==
    /\ [](Called("free_texture") => Called("submit") /\ AllBefore("submit", "free_texture"))
    /\ [][(textures \ textures' # {}) => (pc = "free_texture" /\ Called("submit"))]_vars

\* A redraw that uploaded the font atlas, submitted, and then freed it.
C3_Witness ==
    /\ pc = "wait"
    /\ Called("update_texture")
    /\ Called("free_texture")
    /\ textures = {}

\* C4: a window event the UI reports as consumed gets no resize, redraw or
\* close handling (the closure returns before the match), and a repaint
\* reported by the UI leaves a redraw requested whether or not the event was
\* consumed.
C4_ConsumedStopsRepaintHonoured ==
    IsWindowEvent =>
        /\ event.consumed =>
              /\ status = "running"
              /\ pc = "wait"
              /\ Range(trace) \subseteq {"on_window_event", "request_redraw"}
        /\ event.repaint => redraw_requested /\ Called("request_redraw")

\* A close request the UI consumed while asking for a repaint.
C4_Witness ==
    /\ event.kind = "CloseRequested"
    /\ event.consumed
    /\ event.repaint
    /\ redraw_requested
    /\ status = "running"

\* C5: for every dispatched window event the UI sees it first, and exactly
\* one of "the UI consumed it" and "the match on the event kind observed it"
\* holds.
C5_ExactlyOneConsumer ==
    IsWindowEvent =>
        /\ trace # <<>> /\ trace[1] = "on_window_event"
        /\ event.consumed <=> ~Called("match")

\* An input event the UI did not consume, observed by the match.
C5_Witness ==
    /\ event.kind = "Other"
    /\ ~event.consumed
    /\ Called("match")

-----------------------------------------------------------------------------
(* C6 .. C10 *)

RedrawCalls == {"get_current_texture", "submit", "present"}

\* C6 as stated: whenever a close request is received the loop is in its
\* terminal state.
C6_AnyCloseRequestExits ==
    event.kind = "CloseRequested" => status = "exited"

\* C6: a close request the UI did not consume puts the loop in its terminal
\* state; the terminal state is entered only by such a close request, no
\* acquire, submit or present belongs to that dispatch, and nothing is
\* executed once the loop is terminal.
C6_UnconsumedCloseExits ==
    /\ [](event.kind = "CloseRequested" /\ ~event.consumed => status = "exited")
    /\ [](status = "exited" =>
            /\ event.kind = "CloseRequested" /\ ~event.consumed
            /\ pc = "wait"
            /\ Range(trace) \cap RedrawCalls = {})
    /\ [][status # "exited"]_vars

\* The loop stopped by a close request while a redraw was still requested.
C6_Witness ==
    /\ status = "exited"
    /\ event.kind = "CloseRequested"
    /\ redraw_requested

\* C7 as stated: at every event boundary the surface configuration is the
\* clamped size of the most recent resize event (or of the initial window).
C7_ConfigMatchesLatestResize ==
    (pc = "wait" /\ event.kind \in {"none", "Resized"}) =>
        ConfigSize = ClampSize(event.size)

\* C7: the surface configuration, and the configuration applied to the
\* surface, are the clamped size (max(w,1), max(h,1)) of the most recent
\* resize event the UI did not consume, or of the initial window size: they
\* equal it after such an event and change in no other step.
C7_ConfigMatchesLatestUnconsumedResize ==
    /\ []((event.kind = "none" \/ (event.kind = "Resized" /\ ~event.consumed)) =>
            /\ ConfigSize = ClampSize(event.size)
            /\ surface = surface_config)
    /\ [](pc = "get_current_texture" => surface = surface_config)
    /\ [][(surface_config' # surface_config \/ surface' # surface) =>
            (pc = "wait" /\ event'.kind = "Resized" /\ ~event'.consumed)]_vars

\* An unconsumed resize to MaxDim x 0 configured as MaxDim x 1.
C7_Witness ==
    /\ event.kind = "Resized"
    /\ ~event.consumed
    /\ event.size = <<MaxDim, 0>>
    /\ ConfigSize = <<MaxDim, 1>>
    /\ surface = surface_config

\* C8: the surface configuration is never smaller than 1 in either dimension,
\* from a 0-sized start and after a resize to 0x0, which configures 1x1
\* without a fatal error.
C8_SurfaceAtLeastOne ==
    /\ surface_config.width >= 1 /\ surface_config.height >= 1
    /\ surface.width >= 1 /\ surface.height >= 1
    /\ ~Called("configure_failed")
    /\ (event.kind = "Resized" /\ ~event.consumed /\ event.size = <<0, 0>>) =>
          /\ ConfigSize = <<1, 1>>
          /\ surface = surface_config
          /\ status = "running"

\* A redraw that ran to completion against a 1x1 surface.
C8_Witness ==
    /\ ConfigSize = <<1, 1>>
    /\ surface = surface_config
    /\ event.kind = "RedrawRequested"
    /\ pc = "wait"
    /\ Called("present")
    /\ frame = "presented"

\* C9: every resize event that reaches the match updates the configuration,
\* applies it to the surface and then requests a redraw, in that order and
\* as the last three calls of the dispatch.
C9_ResizeReconfiguresThenRequestsRedraw ==
    (event.kind = "Resized" /\ ~event.consumed) =>
        /\ Len(trace) >= 4
        /\ SubSeq(trace, Len(trace) - 3, Len(trace))
              = <<"match", "set_config", "configure", "request_redraw">>
        /\ surface = surface_config
        /\ redraw_requested

\* A resize for which the UI asked for no repaint still requests a redraw.
C9_Witness ==
    /\ event.kind = "Resized"
    /\ ~event.consumed
    /\ ~event.repaint
    /\ redraw_requested
    /\ Called("configure")

\* C10: a failed acquire stops the loop: the dispatch that failed submits and
\* presents nothing, nothing is executed afterwards, and a frame is presented
\* only after its whole render pass was recorded and submitted.
C10_AcquireFailureIsFatal ==
    /\ [](Called("get_current_texture_failed") =>
            /\ status = "panicked"
            /\ ~Called("submit") /\ ~Called("present")
            /\ frame # "presented")
    /\ [](Called("present") =>
            \A c \in {"get_current_texture", "begin_render_pass", "draw",
                      "egui_render", "submit"} :
                Called(c) /\ AllBefore(c, "present"))
    /\ [][status # "panicked"]_vars

\* The loop stopped by a failed acquire.
C10_Witness ==
    /\ status = "panicked"
    /\ Called("get_current_texture_failed")
    /\ pc = "get_current_texture"

-----------------------------------------------------------------------------
(* C11 .. C20 *)

\* Position of the first call of `name` in the current dispatch, 0 when absent.
Pos(name) == IndexOf(trace, name)

\* C11 as stated: the UI logic step enqueues no GPU write; the colour write
\* is issued only after egui_ctx().run has returned.
C11_WriteAfterUiStepReturns ==
    Called("update_color_buffer") =>
        /\ Called("run_returned")
        /\ Pos("run_returned") < Pos("update_color_buffer")

\* C11: when the picker reports a change, the colour write is enqueued by
\* the UI logic closure itself, inside egui_ctx().run and before it returns;
\* it is the only GPU write of the UI step, which otherwise changes only the
\* colour (and produces the frame's UI output).
C11_WriteInsideUiStep ==
    /\ [](Called("update_color_buffer") =>
            /\ Pos("run") < Pos("update_color_buffer")
            /\ (Called("run_returned") => Pos("update_color_buffer") < Pos("run_returned"))
            /\ Len(SelectSeq(trace, LAMBDA c : c = "update_color_buffer")) = 1)
    /\ [][(pc = "run" /\ pc' # "run") =>
            /\ \/ queue' = queue /\ color_uniform' = color_uniform
               \/ queue' = Append(queue, QueueOp("write_buffer",
                                    EncaseWrite(RGBA_new(color_uniform')), <<>>))
            /\ UNCHANGED <<status, surface_config, surface, redraw_requested,
                           frame, textures>>]_vars

\* A UI step in which the picker changed the colour: the write is on the
\* queue although tessellation has only just been done.
C11_Witness ==
    /\ pc = "update_texture"
    /\ Called("update_color_buffer")
    /\ Called("run_returned")
    /\ color_uniform # InitialColor
    /\ queue # <<>>
    /\ queue[Len(queue)].op = "write_buffer"

\* The uniform buffer as it will be once the GPU has executed the pending
\* colour writes of q, starting from contents buf.
RECURSIVE AfterWrites(_, _)
AfterWrites(buf, q) ==
    IF q = <<>> THEN buf
    ELSE AfterWrites(IF Head(q).op = "write_buffer"
                     THEN ApplyWrite(buf, Head(q).offset, Head(q).data)
                     ELSE buf,
                     Tail(q))

SubmitPending == \E i \in 1..Len(queue) : queue[i].op = "submit"

Red == <<100, 0, 0, 100>>

\* C12: on a fresh start the colour is opaque red and its write is on the
\* queue ahead of every submit: the buffer is never read by a draw before
\* that write was executed, and the first command buffer, unless the picker
\* changed the colour in that very frame, is submitted with red as the colour
\* its draw will read.
C12_InitialColorWrittenBeforeFirstSubmit ==
    /\ [](event.kind = "none" =>
            /\ color_uniform = Red
            /\ drawn = NoDraw /\ ~SubmitPending
            /\ AfterWrites(color_uniform_buffer, queue) = EncaseWrite(RGBA_new(Red)))
    /\ [](color_uniform_buffer = ZeroBuffer =>
            /\ drawn = NoDraw
            /\ queue # <<>>
            /\ Head(queue).op = "write_buffer"
            /\ Head(queue).data = EncaseWrite(RGBA_new(Red)))
    /\ []((pc = "submit" /\ drawn = NoDraw /\ ~SubmitPending
              /\ ~Called("update_color_buffer")) =>
            /\ color_uniform = Red
            /\ ShaderRead(AfterWrites(color_uniform_buffer, queue)) = Red)
    /\ [][(drawn = NoDraw /\ drawn' # NoDraw) =>
            /\ color_uniform_buffer # ZeroBuffer
            /\ drawn'.color = drawn'.committed]_vars

\* A first redraw without a colour change, drawn in opaque red.
C12_Witness ==
    /\ event.kind = "RedrawRequested"
    /\ pc = "wait"
    /\ ~Called("update_color_buffer")
    /\ textures = {}
    /\ drawn # NoDraw
    /\ drawn.color = Red
    /\ color_uniform = Red
    /\ queue = <<>>

\* C13: every colour write is one whole record: it starts at offset 0 and has
\* the size of the buffer allocation, so executing it replaces the whole
\* buffer, and after the pending writes the buffer decodes to exactly the
\* four channels of the closure's colour whatever it held before.
C13_WriteOverwritesWholeRecord ==
    /\ [](\A i \in 1..Len(queue) :
            queue[i].op = "write_buffer" =>
                /\ queue[i].offset = 0
                /\ Len(queue[i].data) = Len(color_uniform_buffer))
    /\ [](ShaderRead(AfterWrites(color_uniform_buffer, queue)) = color_uniform)
    /\ [][(queue # <<>> /\ Head(queue).op = "write_buffer" /\ queue' = Tail(queue)) =>
            color_uniform_buffer' = Head(queue).data]_vars

\* The buffer after a colour that differs from red in all four channels was
\* written over it and drawn.
C13_Witness ==
    /\ color_uniform_buffer = EncaseWrite(RGBA_new(<<0, 100, 50, 0>>))
    /\ drawn # NoDraw
    /\ drawn.color = <<0, 100, 50, 0>>

UnconsumedResize(e) == e.kind = "Resized" /\ ~e.consumed

\* C14: reconfiguring with a size and then again with the same size gives
\* the configuration of reconfiguring once: from every reachable
\* configuration and for every size, and a second resize event carrying the
\* size of the one before it leaves the configuration and the surface as
\* they are.
C14_ReconfigureIdempotent ==
    /\ [](\A size \in Sizes :
            Reconfigure(Reconfigure(surface_config, size), size)
                = Reconfigure(surface_config, size))
    /\ [][(UnconsumedResize(event) /\ UnconsumedResize(event')
              /\ event'.size = event.size) =>
            (surface_config' = surface_config /\ surface' = surface)]_vars

\* A resize has changed the configuration, and a resize to another size
\* would change it again.
C14_Witness ==
    /\ UnconsumedResize(event)
    /\ event.size = <<MaxDim, 1>>
    /\ ConfigSize = <<MaxDim, 1>>
    /\ Reconfigure(surface_config, <<0, MaxDim>>) # surface_config
    /\ Reconfigure(surface_config, event.size) = surface_config

\* The event being handled is a redraw request that reached the match.
InRedraw == event.kind = "RedrawRequested" /\ ~event.consumed

\* The calls of the redraw arm made so far.
RedrawTrace == SubSeq(trace, Pos("match") + 1, Len(trace))

\* Calls every redraw makes exactly once, in order.
FixedSteps ==
    << "get_current_texture", "create_command_encoder", "take_egui_input", "run",
       "run_returned", "tessellate", "update_buffers", "begin_render_pass",
       "set_pipeline", "set_bind_group", "draw", "egui_render", "submit", "present" >>

\* The same with the calls that depend on the frame's UI output in place.
FullOrder ==
    << "get_current_texture", "create_command_encoder", "take_egui_input", "run",
       "update_color_buffer", "run_returned", "tessellate", "update_texture",
       "update_buffers", "begin_render_pass", "set_pipeline", "set_bind_group",
       "draw", "egui_render", "submit", "present", "free_texture" >>

Count(name) == Len(SelectSeq(trace, LAMBDA c : c = name))

\* C15: the calls of a redraw follow the fixed order acquire, encoder, UI
\* input, UI logic, tessellate, texture updates, buffer upload, one render
\* pass (clear, triangle draw, then UI draw), submit, present, texture frees;
\* each fixed step is made at most once so far and exactly once when the
\* redraw has returned, with one texture update and one free per texture of
\* the frame's output.
C15_RedrawStepsInOrder ==
    InRedraw =>
        LET r == RedrawTrace IN
        \/ r = <<"get_current_texture_failed">>
        \/ /\ \A i \in 1..Len(r) : r[i] \in Range(FullOrder)
           /\ \A i, j \in 1..Len(r) :
                 i < j => /\ IndexOf(FullOrder, r[i]) <= IndexOf(FullOrder, r[j])
                          /\ r[j] \in Range(FixedSteps) => r[i] # r[j]
           /\ \A k \in 1..Len(FixedSteps) :
                 Called(FixedSteps[k]) => \A m \in 1..k : Called(FixedSteps[m])
           /\ pc = "wait" =>
                 /\ \A k \in 1..Len(FixedSteps) : Count(FixedSteps[k]) = 1
                 /\ Count("update_texture") = Cardinality(egui_full_output.set)
                 /\ Count("free_texture") = Cardinality(egui_full_output.free)
                 /\ Count("update_color_buffer") <= 1

\* A completed redraw that changed the colour, uploaded a texture and freed one.
C15_Witness ==
    /\ InRedraw
    /\ pc = "wait"
    /\ Len(RedrawTrace) = Len(FullOrder)
    /\ RedrawTrace = FullOrder

\* Number of command buffers on the queue.
Submits(q) == Len(SelectSeq(q, LAMBDA o : o.op = "submit"))

FrameCalls == {"get_current_texture", "get_current_texture_failed", "submit", "present"}

\* C16: one dispatch acquires, submits and presents at most once, and only
\* when its event is a redraw request the UI did not consume; any other
\* dispatch holds no frame and puts no command buffer on the queue; a frame
\* that was acquired is presented before the dispatch returns.
C16_OneFramePerRedrawDispatch ==
    /\ [](/\ \A c \in FrameCalls : Count(c) <= 1
          /\ (\E c \in FrameCalls : Called(c)) => InRedraw
          /\ ~InRedraw => frame = "none" /\ pc = "wait"
          /\ frame = "acquired" => pc # "wait" /\ ~Called("present")
          /\ (pc = "wait" /\ Called("get_current_texture")) =>
                 (frame = "presented" /\ Called("submit") /\ Called("present")))
    /\ [][Submits(queue') > Submits(queue) =>
             /\ InRedraw /\ ~Called("submit") /\ event' = event
             /\ Submits(queue') = Submits(queue) + 1]_vars

\* A redraw that returned after acquiring, submitting and presenting its
\* frame, although the UI asked for a repaint in the same dispatch.
C16_Witness ==
    /\ InRedraw
    /\ event.repaint
    /\ pc = "wait"
    /\ frame = "presented"
    /\ Count("submit") = 1

\* C17: the surface format is the one chosen at startup in every state; a
\* step that changes the surface configuration is the dispatch of a resize
\* the UI did not consume and changes nothing but width and height; the
\* surface is never configured with another format.
C17_ConfigChangedOnlyByResize ==
    /\ [](surface_config.format = Formats[1] /\ surface.format = Formats[1])
    /\ [][surface_config' # surface_config =>
             /\ pc = "wait" /\ pc' = "wait"
             /\ UnconsumedResize(event')
             /\ surface_config' = [surface_config EXCEPT
                                       !.width = surface_config'.width,
                                       !.height = surface_config'.height]]_vars
    /\ [][(event' # event /\ ~UnconsumedResize(event')) =>
             (surface_config' = surface_config /\ surface' = surface)]_vars

\* A resize to a new size has been applied and the format is still the
\* startup format.
C17_Witness ==
    /\ UnconsumedResize(event)
    /\ event.size = <<1, MaxDim>>
    /\ ConfigSize = <<1, MaxDim>>
    /\ surface = surface_config
    /\ surface_config.format = Formats[1]
    /\ Called("configure")

\* C18: when the handling of a redraw whose UI output asks for a repaint
\* returns, a redraw of the window is requested.  Between two dispatches no
\* code of the program runs (only the GPU does), so a request that has not
\* been made when the handler returns is made by no later step short of a
\* new window event.
C18_UiOutputRepaintSchedulesRedraw ==
    (InRedraw /\ pc = "wait" /\ Called("present") /\ egui_full_output.repaint)
        => redraw_requested

\* Number of colour writes on the queue.
ColorWrites(q) == Len(SelectSeq(q, LAMBDA o : o.op = "write_buffer"))

\* C19: a step that changes the colour or puts a colour write on the queue is
\* the UI step of a redraw request the UI did not consume, in which the
\* picker reported a change (update_color_buffer was called): it enqueues
\* exactly one write, of the new colour.  No dispatch of a resize, close,
\* consumed or other event does either.  The contents of the GPU buffer change
\* only when the GPU executes a queued colour write, never by a handler step.
C19_ColorChangesOnlyInChangedRedraw ==
    /\ [][(color_uniform' # color_uniform \/ ColorWrites(queue') > ColorWrites(queue)) =>
             /\ InRedraw /\ event' = event
             /\ pc = "run" /\ pc' # "run"
             /\ "update_color_buffer" \in Range(trace')
             /\ queue' = Append(queue, QueueOp("write_buffer",
                                    EncaseWrite(RGBA_new(color_uniform')), <<>>))]_vars
    /\ [][(event' # event \/ trace' # trace) /\ ~(pc = "run" /\ pc' # "run") =>
             /\ color_uniform' = color_uniform
             /\ color_uniform_buffer' = color_uniform_buffer
             /\ ColorWrites(queue') = ColorWrites(queue)]_vars
    /\ [][color_uniform_buffer' # color_uniform_buffer =>
             /\ queue # <<>> /\ Head(queue).op = "write_buffer"
             /\ queue' = Tail(queue)
             /\ UNCHANGED <<pc, event, trace, color_uniform>>]_vars

\* A redraw in which the picker reported no change has returned: the colour
\* is the one an earlier redraw set, and no colour write is on the queue.
C19_Witness ==
    /\ InRedraw
    /\ pc = "wait"
    /\ ~Called("update_color_buffer")
    /\ color_uniform = <<0, 100, 50, 0>>
    /\ ColorWrites(queue) = 0
    /\ ShaderRead(color_uniform_buffer) = color_uniform

\* C20: in a redraw that has tessellated, the screen descriptor's
\* pixels_per_point is the pixels_per_point of the UI output the geometry was
\* tessellated with, and its size is the surface configuration's size.
C20_ScreenDescriptorMatchesTessellation ==
    (InRedraw /\ Called("tessellate")) =>
        /\ egui_screen_descriptor.pixels_per_point = egui_full_output.pixels_per_point
        /\ egui_screen_descriptor.size_in_pixels = ConfigSize

====
